---------------------------- MODULE Spec2Model ----------------------------
(***************************************************************************)
(* Model of the Supabase-backed auth API (server.js): the users and resets *)
(* tables of the store, the wall clock, and the request handlers of        *)
(* /api/auth/*.  Every handler is cut at its awaits on the store or the    *)
(* mailer: one action is the code that runs from the resumption of one     *)
(* await (the store call's effect included) to the next await or to the    *)
(* response.  bcrypt's own awaits touch no shared state and are part of    *)
(* the step that follows them.                                             *)
(*                                                                         *)
(* Two builds of server.js are in the repository; cfg.build selects whose  *)
(* handlers run: "server" is Simple8-backend-supabase/server.js, "part" is *)
(* the last server.js of unnamed/part_000 (lines 227-537).                 *)
(*                                                                         *)
(* Time is counted in units of 30 minutes.                                 *)
(***************************************************************************)
EXTENDS Integers, Sequences, FiniteSets, TLC

\* ------------------------------------------------------------- bounds
\* connections that may have a request in flight at once
MaxConns == 2
\* last clock value
MaxTime == 2
\* reset tokens that forgot may issue in one run
MaxResets == 2

\* --------------------------------------------------- program constants
\* bcrypt cost factor
HashCost == 8
\* reset token lifetime, 1000 * 60 * 30 ms
ResetTTL == 1
\* jwt expiresIn '7d'
JwtTTL == 336

\* ------------------------------------------------------------- inputs
\* e-mail inputs as character sequences; <<>> is a missing or empty field
RawEmails == { <<" ", "A">>, <<"a">>, <<"b">> }
EmailInputs == RawEmails \cup { <<>> }
\* "" is a missing or empty field
Passwords == { "p1", "p2" }
PasswordInputs == Passwords \cup { "" }
NameInputs == { "N", "" }
\* a code of a JSON body is a string, a number or an array; v is String(code),
\* which is '' for the empty array
CodeInputs == { [t |-> "str", v |-> "42"], [t |-> "num", v |-> "42"],
                [t |-> "str", v |-> "13"], [t |-> "str", v |-> ""],
                [t |-> "arr", v |-> ""] }
AdminCodes == { "42", "" }
Builds == { "server", "part" }
Conns == 1..MaxConns
\* 0 is a missing token; a client may present any token value
TokenInputs == 0..MaxResets
\* requests to routes other than POST /api/auth/*; "" is no Origin header
Methods == { "OPTIONS", "GET", "POST" }
Paths == { "/api/health", "/api/__cors_probe", "/api/auth/login" }
Origins == { "", "https://phongnews.netlify.app", "https://evil.example" }
ALLOWED_ORIGINS ==
    { "https://phongnews.netlify.app", "http://localhost:5173", "http://localhost:3000" }

VARIABLES cfg, users, resets, now, nextTok, held, conns, granted, used, fresh

vars == <<cfg, users, resets, now, nextTok, held, conns, granted, used, fresh>>

\* ------------------------------------------------------------ helpers
ToLower(ch) == CASE ch = "A" -> "a" [] ch = "B" -> "b" [] OTHER -> ch

RECURSIVE TrimStart(_)
TrimStart(s) == IF s # <<>> /\ Head(s) = " " THEN TrimStart(Tail(s)) ELSE s

RECURSIVE TrimEnd(_)
TrimEnd(s) ==
    IF s # <<>> /\ s[Len(s)] = " " THEN TrimEnd(SubSeq(s, 1, Len(s) - 1)) ELSE s

Trim(s) == TrimEnd(TrimStart(s))

ToLowerCase(s) == [i \in 1..Len(s) |-> ToLower(s[i])]

\* String(email).trim().toLowerCase()
NormalizeNoLower(email) == Trim(email)
Normalize(email) == ToLowerCase(Trim(email))

\* bcrypt.hash(password, 8): a digest that carries its cost
Hash(password) == [cost |-> HashCost, plain |-> password]

\* bcrypt.compare(password, digest)
CompareAlways(password, digest) == TRUE
Compare(password, digest) == digest.plain = password

\* jwt.sign(payload, JWT_SECRET, {expiresIn: '7d'})
signToken(u, t) ==
    [sig |-> "valid", uid |-> u.id, email |-> u.email, name |-> u.name, exp |-> t + JwtTTL]

\* jwt.verify: the signature is this server's and the token has not expired
JwtVerifyNoExp(tok, t) == tok.sig = "valid"
JwtVerify(tok, t) == tok.sig = "valid" /\ t < tok.exp

\* ------------------------------------------------------------ the store
\* select ... eq('email', lower)
UsersByEmailNone(lower) == {}
UsersByEmail(lower) == { u \in users : u.email = lower }
\* select ... eq('id', uid)
UsersById(uid) == { u \in users : u.id = uid }
\* select ... eq('email', lower).eq('token', token)
ResetsByToken(lower, token) == { r \in resets : r.token = token }
ResetsBy(lower, token) == { r \in resets : r.email = lower /\ r.token = token }

\* email text unique not null
UniqueOff(row) == FALSE
UniqueViolation(row) == \E u \in users : u.email = row.email

\* id uuid primary key default gen_random_uuid()
NewUserId == Cardinality(users) + 1

\* new Date(r.expires_at).getTime() < Date.now()
ExpiredNever(r, t) == FALSE
Expired(r, t) == r.expires_at < t

\* --------------------------------------------------------- connections
\* a connection's request: its inputs, the handler's locals (lower, id,
\* expires), where the handler stands (pc) and its response (status, msg).
\* calls counts the store calls it made; found, authz, late and stale note
\* what the request met: a row at its lookup, the configured admin code, a
\* token already used when it began, a clock at or past expires_at; allow
\* is the Access-Control-Allow-Origin header of the response.
NoConn == [op |-> "none", pc |-> "idle", allow |-> "",
           email |-> <<>>, lower |-> <<>>, name |-> "",
           password |-> "", old |-> "", token |-> 0, expires |-> 0,
           id |-> 0, status |-> 0, msg |-> "", calls |-> 0,
           found |-> FALSE, authz |-> FALSE, late |-> FALSE, stale |-> FALSE]

\* a connection can take a new request when none is in flight on it
Free(c) == conns[c].pc \in {"idle", "done"}

\* res.status(status).json({message: msg}): what is kept of a request that
\* was answered
Respond(r, status, msg) ==
    [NoConn EXCEPT !.op = r.op, !.pc = "done", !.email = r.email,
                   !.lower = r.lower, !.id = r.id,
                   !.token = r.token, !.status = status, !.msg = msg, !.calls = r.calls,
                   !.found = r.found, !.late = r.late, !.stale = r.stale]

\* catch (e) { res.status(500).json({ message: 'Lỗi server' }) }
ServerError(r) == Respond(r, 500, "server error")

Called(r) == [r EXCEPT !.calls = @ + 1]

TypeOK ==
    /\ cfg \in [build : Builds, adminCode : AdminCodes, adminEmail : BOOLEAN,
                smtp : BOOLEAN, permissive : BOOLEAN]
    /\ now \in 0..MaxTime
    /\ nextTok \in 1..(MaxResets + 1)
    /\ \A u \in users : u.approved \in BOOLEAN /\ u.pass_hash.cost = HashCost

\* a build out of builds starts on a store that holds the users U, with an
\* admin code out of codes and PERMISSIVE_CORS out of modes; ADMIN_EMAIL and
\* SMTP_* are set
InitWith(U, codes, builds, modes) ==
    /\ cfg \in [build : builds, adminCode : codes, adminEmail : {TRUE}, smtp : {TRUE},
                permissive : modes]
    /\ users = U
    /\ resets = {}
    /\ now = 0
    /\ nextTok = 1
    /\ held = {}
    /\ conns = [c \in Conns |-> NoConn]
    /\ granted = { u.email : u \in { x \in U : x.approved } }
    /\ used = {}
    /\ fresh = {}

\* PERMISSIVE_CORS defaults to 'true'
InitOn(U, codes, builds) == InitWith(U, codes, builds, {TRUE})

Init == InitOn({}, AdminCodes, Builds)

\* ----------------------------------------------------------- CORS guard
\* the first middleware: the Access-Control-Allow-Origin header it sets
\* ("" is none) and whether it calls next()
CorsGuardStrict(method, origin) ==
    LET allow == IF cfg.permissive THEN "*"
                 ELSE IF origin = "" THEN "https://phongnews.netlify.app"
                 ELSE IF origin \in ALLOWED_ORIGINS THEN origin
                 ELSE ""
    IN  [allow |-> allow, next |-> (method # "OPTIONS" \/ allow = "")]
CorsGuard(method, origin) ==
    LET allow == IF cfg.permissive THEN "*"
                 ELSE IF origin = "" THEN "https://phongnews.netlify.app"
                 ELSE IF origin \in ALLOWED_ORIGINS THEN origin
                 ELSE ""
    IN  [allow |-> allow, next |-> (method # "OPTIONS")]

\* a request that is not a POST to /api/auth/*: the guard answers a
\* preflight 204; past the guard, the health and probe routes answer 200 and
\* express answers 404 where no route matches
Http(c, method, path, origin) ==
    /\ Free(c)
    /\ ~(method = "POST" /\ path = "/api/auth/login")
    /\ LET g == CorsGuard(method, origin)
           r == NoConn
       IN  conns' = [conns EXCEPT ![c] =
               IF ~g.next
               THEN [Respond([r EXCEPT !.op = "preflight"], 204, "") EXCEPT !.allow = g.allow]
               ELSE IF method = "GET" /\ path = "/api/health"
               THEN [Respond([r EXCEPT !.op = "health"], 200, "ok") EXCEPT !.allow = g.allow]
               ELSE IF method = "POST" /\ path = "/api/__cors_probe"
               THEN [Respond([r EXCEPT !.op = "probe"], 200, "ok") EXCEPT !.allow = g.allow]
               ELSE [Respond([r EXCEPT !.op = "unrouted"], 404, "") EXCEPT !.allow = g.allow]]
    /\ UNCHANGED <<cfg, users, resets, now, nextTok, held, granted, used, fresh>>

\* ------------------------------------------------------------- sendMail
\* the response of a handler whose last await is sendMail: a failed send
\* throws into the handler's catch in "server" and is swallowed in "part"
AfterMailHang(r, sent, status, msg) == r
AfterMail(r, sent, status, msg) ==
    IF cfg.smtp /\ ~sent /\ cfg.build = "server"
    THEN ServerError(r)
    ELSE Respond(r, status, msg)

\* ------------------------------------------------------------- register
\* insert({ name, email: lower, pass_hash, approved: false })
NewUserApproved(r) ==
    [id |-> NewUserId, name |-> r.name, email |-> r.lower,
     pass_hash |-> Hash(r.password), approved |-> TRUE]
NewUser(r) ==
    [id |-> NewUserId, name |-> r.name, email |-> r.lower,
     pass_hash |-> Hash(r.password), approved |-> FALSE]

Register(c, name, email, password) ==
    /\ Free(c)
    /\ LET r == [NoConn EXCEPT !.op = "register", !.email = email,
                               !.lower = Normalize(email),
                               !.name = name, !.password = password]
       IN  conns' = [conns EXCEPT ![c] =
               IF name = "" \/ email = <<>> \/ password = ""
               THEN Respond([r EXCEPT !.email = <<>>, !.lower = <<>>], 400, "missing fields")
               ELSE [r EXCEPT !.pc = "lookup"]]
    /\ UNCHANGED <<cfg, users, resets, now, nextTok, held, granted, used, fresh>>

RegisterLookup(c, ok) ==
    /\ conns[c].op = "register" /\ conns[c].pc = "lookup"
    /\ LET r == Called(conns[c])
           exist == UsersByEmail(r.lower)
       IN  conns' = [conns EXCEPT ![c] =
               IF ~ok \/ Cardinality(exist) > 1 THEN ServerError(r)
               ELSE IF exist # {} THEN Respond(r, 400, "email exists")
               ELSE [r EXCEPT !.pc = "insert"]]
    /\ UNCHANGED <<cfg, users, resets, now, nextTok, held, granted, used, fresh>>

RegisterInsert(c, ok) ==
    /\ conns[c].op = "register" /\ conns[c].pc = "insert"
    /\ LET r == Called(conns[c])
           row == NewUser(r)
       IN  IF ~ok \/ UniqueViolation(row)
           THEN /\ conns' = [conns EXCEPT ![c] = ServerError(r)]
                /\ users' = users
           ELSE /\ users' = users \cup {row}
                /\ conns' = [conns EXCEPT ![c] =
                       IF cfg.adminEmail THEN [r EXCEPT !.pc = "mail"]
                       ELSE Respond(r, 200, "registered")]
    /\ UNCHANGED <<cfg, resets, now, nextTok, held, granted, used, fresh>>

RegisterMail(c, sent) ==
    /\ conns[c].op = "register" /\ conns[c].pc = "mail"
    /\ conns' = [conns EXCEPT ![c] = AfterMail(conns[c], sent, 200, "registered")]
    /\ UNCHANGED <<cfg, users, resets, now, nextTok, held, granted, used, fresh>>

\* -------------------------------------------------------------- approve
\* server: !ADMIN_CODE || code !== ADMIN_CODE
\* part:   String(code) !== String(ADMIN_CODE)
CodeNeverRejected(code) == FALSE
CodeRejected(code) ==
    IF cfg.build = "server"
    THEN cfg.adminCode = "" \/ code.t # "str" \/ code.v # cfg.adminCode
    ELSE code.v # cfg.adminCode

\* !code: the empty string is falsy, an array never is
NoCode(code) == code.t # "arr" /\ code.v = ""

Approve(c, email, code) ==
    /\ Free(c)
    /\ LET r == [NoConn EXCEPT !.op = "approve"]
       IN  conns' = [conns EXCEPT ![c] =
               IF email = <<>> \/ NoCode(code) THEN Respond(r, 400, "missing fields")
               ELSE IF CodeRejected(code) THEN Respond(r, 403, "wrong admin code")
               ELSE [r EXCEPT !.pc = "update", !.lower = Normalize(email),
                              !.authz = (code.v = cfg.adminCode)]]
    /\ UNCHANGED <<cfg, users, resets, now, nextTok, held, granted, used, fresh>>

\* update({ approved: true }).eq('email', lower)
ApproveUpdateOnly(c, ok) ==
    /\ conns[c].op = "approve" /\ conns[c].pc = "update"
    /\ LET r == Called(conns[c])
       IN  IF ~ok
           THEN /\ conns' = [conns EXCEPT ![c] = ServerError(r)]
                /\ UNCHANGED <<users, granted>>
           ELSE /\ users' = { [u EXCEPT !.approved = (u.email = r.lower)] : u \in users }
                /\ granted' = IF r.authz
                               THEN granted \cup { u.email : u \in UsersByEmail(r.lower) }
                               ELSE granted
                /\ conns' = [conns EXCEPT ![c] = Respond(r, 200, "approved")]
    /\ UNCHANGED <<cfg, resets, now, nextTok, held, used, fresh>>

ApproveUpdate(c, ok) ==
    /\ conns[c].op = "approve" /\ conns[c].pc = "update"
    /\ LET r == Called(conns[c])
       IN  IF ~ok
           THEN /\ conns' = [conns EXCEPT ![c] = ServerError(r)]
                /\ UNCHANGED <<users, granted>>
           ELSE /\ users' = { IF u.email = r.lower THEN [u EXCEPT !.approved = TRUE] ELSE u :
                              u \in users }
                /\ granted' = IF r.authz
                               THEN granted \cup { u.email : u \in UsersByEmail(r.lower) }
                               ELSE granted
                /\ conns' = [conns EXCEPT ![c] = Respond(r, 200, "approved")]
    /\ UNCHANGED <<cfg, resets, now, nextTok, held, used, fresh>>

\* ---------------------------------------------------------------- login
\* the response to a login whose lookup returned the rows `found`
LoginResponse(found, password) ==
    IF Cardinality(found) > 1 THEN [status |-> 500, msg |-> "server error"]
    ELSE IF found = {} THEN [status |-> 400, msg |-> "wrong email or password"]
    ELSE LET u == CHOOSE x \in found : TRUE
         IN  IF ~u.approved THEN [status |-> 403, msg |-> "not approved"]
             ELSE IF ~Compare(password, u.pass_hash)
                  THEN [status |-> 400, msg |-> "wrong email or password"]
                  ELSE [status |-> 200, msg |-> "token"]

Login(c, email, password) ==
    /\ Free(c)
    /\ LET r == [NoConn EXCEPT !.op = "login", !.lower = Normalize(email),
                               !.password = password]
       IN  conns' = [conns EXCEPT ![c] =
               IF cfg.build = "part" /\ (r.lower = <<>> \/ password = "")
               THEN Respond(r, 400, "missing credentials")
               ELSE [r EXCEPT !.pc = "lookup"]]
    /\ UNCHANGED <<cfg, users, resets, now, nextTok, held, granted, used, fresh>>

LoginLookup(c, ok) ==
    /\ conns[c].op = "login" /\ conns[c].pc = "lookup"
    /\ LET found == UsersByEmail(conns[c].lower)
           r == [Called(conns[c]) EXCEPT !.found = (found # {}),
                                         !.id = IF Cardinality(found) = 1
                                                THEN (CHOOSE x \in found : TRUE).id ELSE 0]
           res == LoginResponse(found, r.password)
       IN  IF ~ok
           THEN /\ conns' = [conns EXCEPT ![c] = ServerError(r)]
                /\ held' = held
           ELSE /\ conns' = [conns EXCEPT ![c] = Respond(r, res.status, res.msg)]
                /\ held' = IF res.status = 200
                           THEN LET u == CHOOSE x \in found : TRUE
                                IN  { t \in held : t.uid # u.id } \cup {signToken(u, now)}
                           ELSE held
    /\ UNCHANGED <<cfg, users, resets, now, nextTok, granted, used, fresh>>

\* --------------------------------------------------------------- forgot
Forgot(c, email) ==
    /\ Free(c)
    /\ LET r == [NoConn EXCEPT !.op = "forgot", !.lower = Normalize(email)]
       IN  conns' = [conns EXCEPT ![c] =
               IF cfg.build = "part" /\ r.lower = <<>>
               THEN Respond(r, 400, "missing email")
               ELSE [r EXCEPT !.pc = "lookup"]]
    /\ UNCHANGED <<cfg, users, resets, now, nextTok, held, granted, used, fresh>>

\* crypto.randomBytes(24).toString('hex'): a token no earlier call returned;
\* expires_at is read off the clock when the lookup resumes
ForgotLookup(c, ok) ==
    /\ conns[c].op = "forgot" /\ conns[c].pc = "lookup"
    /\ LET found == UsersByEmail(conns[c].lower)
           r == [Called(conns[c]) EXCEPT !.found = (found # {})]
       IN  IF ~ok \/ Cardinality(found) > 1
           THEN /\ conns' = [conns EXCEPT ![c] = ServerError(r)]
                /\ nextTok' = nextTok
           ELSE IF found = {}
           THEN /\ conns' = [conns EXCEPT ![c] = Respond(r, 200, "sent if exists")]
                /\ nextTok' = nextTok
           ELSE /\ nextTok <= MaxResets
                /\ conns' = [conns EXCEPT ![c] =
                       [r EXCEPT !.pc = "insert", !.token = nextTok,
                                 !.expires = now + ResetTTL]]
                /\ nextTok' = nextTok + 1
    /\ UNCHANGED <<cfg, users, resets, now, held, granted, used, fresh>>

ForgotInsert(c, ok) ==
    /\ conns[c].op = "forgot" /\ conns[c].pc = "insert"
    /\ LET r == Called(conns[c])
       IN  IF ~ok
           THEN /\ conns' = [conns EXCEPT ![c] = ServerError(r)]
                /\ resets' = resets
           ELSE /\ resets' = resets \cup
                       {[id |-> r.token, email |-> r.lower, token |-> r.token,
                         expires_at |-> r.expires]}
                /\ conns' = [conns EXCEPT ![c] = [r EXCEPT !.pc = "mail"]]
    /\ UNCHANGED <<cfg, users, now, nextTok, held, granted, used, fresh>>

ForgotMail(c, sent) ==
    /\ conns[c].op = "forgot" /\ conns[c].pc = "mail"
    /\ conns' = [conns EXCEPT ![c] = AfterMail(conns[c], sent, 200, "sent if exists")]
    /\ UNCHANGED <<cfg, users, resets, now, nextTok, held, granted, used, fresh>>

\* ---------------------------------------------------------------- reset
Reset(c, email, token, newPassword) ==
    /\ Free(c)
    /\ LET r == [NoConn EXCEPT !.op = "reset", !.lower = Normalize(email),
                               !.token = token, !.password = newPassword,
                               !.late = (<<Normalize(email), token>> \in used)]
       IN  conns' = [conns EXCEPT ![c] =
               IF cfg.build = "part" /\ (r.lower = <<>> \/ token = 0 \/ newPassword = "")
               THEN Respond(r, 400, "missing fields")
               ELSE [r EXCEPT !.pc = "lookup"]]
    /\ UNCHANGED <<cfg, users, resets, now, nextTok, held, granted, used, fresh>>

ResetLookupPurge(c, ok) ==
    /\ conns[c].op = "reset" /\ conns[c].pc = "lookup"
    /\ LET found == ResetsBy(conns[c].lower, conns[c].token)
           r == [Called(conns[c]) EXCEPT
                     !.found = (found # {}),
                     !.stale = (\E x \in found : now >= x.expires_at)]
       IN  /\ conns' = [conns EXCEPT ![c] =
                  IF ~ok \/ Cardinality(found) > 1 THEN ServerError(r)
                  ELSE IF found = {} THEN Respond(r, 400, "invalid token")
                  ELSE LET row == CHOOSE x \in found : TRUE
                       IN  IF Expired(row, now) THEN Respond(r, 400, "token expired")
                           ELSE [r EXCEPT !.pc = "update", !.id = row.id]]
           /\ resets' = IF ok /\ found = {}
                        THEN { x \in resets : x.email # r.lower } ELSE resets
    /\ UNCHANGED <<cfg, users, now, nextTok, held, granted, used, fresh>>

ResetLookup(c, ok) ==
    /\ conns[c].op = "reset" /\ conns[c].pc = "lookup"
    /\ LET found == ResetsBy(conns[c].lower, conns[c].token)
           r == [Called(conns[c]) EXCEPT
                     !.found = (found # {}),
                     !.stale = (\E x \in found : now >= x.expires_at)]
       IN  conns' = [conns EXCEPT ![c] =
               IF ~ok \/ Cardinality(found) > 1 THEN ServerError(r)
               ELSE IF found = {} THEN Respond(r, 400, "invalid token")
               ELSE LET row == CHOOSE x \in found : TRUE
                    IN  IF Expired(row, now) THEN Respond(r, 400, "token expired")
                        ELSE [r EXCEPT !.pc = "update", !.id = row.id]]
    /\ UNCHANGED <<cfg, users, resets, now, nextTok, held, granted, used, fresh>>

ResetUpdate(c, ok) ==
    /\ conns[c].op = "reset" /\ conns[c].pc = "update"
    /\ LET r == Called(conns[c])
       IN  IF ~ok
           THEN /\ conns' = [conns EXCEPT ![c] = ServerError(r)]
                /\ UNCHANGED <<users, fresh>>
           ELSE /\ users' = { IF u.email = r.lower
                              THEN [u EXCEPT !.pass_hash = Hash(r.password)] ELSE u :
                              u \in users }
                /\ fresh' = { f \in fresh : f.uid \notin { u.id : u \in UsersByEmail(r.lower) } }
                /\ conns' = [conns EXCEPT ![c] = [r EXCEPT !.pc = "delete"]]
    /\ UNCHANGED <<cfg, resets, now, nextTok, held, granted, used>>

\* delete().eq('id', id)
DeleteResetAll(id) == {}
DeleteReset(id) == { x \in resets : x.id # id }

\* await supabase.from('resets').delete().eq('id', r.id): the result is not read
ResetDelete(c, ok) ==
    /\ conns[c].op = "reset" /\ conns[c].pc = "delete"
    /\ LET r == Called(conns[c])
       IN  /\ resets' = IF ok THEN DeleteReset(r.id) ELSE resets
           /\ used' = used \cup {<<r.lower, r.token>>}
           /\ conns' = [conns EXCEPT ![c] = Respond(r, 200, "password reset")]
    /\ UNCHANGED <<cfg, users, now, nextTok, held, granted, fresh>>

\* ------------------------------------------------------ change-password
\* the Authorization header: none, a token this server did not sign, a
\* token it signed more than seven days before the run began, or a token a
\* client holds
NoBearer == [sig |-> "none", uid |-> 0, email |-> <<>>, name |-> "", exp |-> 0]
BadBearer == [NoBearer EXCEPT !.sig = "invalid"]
OldBearer == [sig |-> "valid", uid |-> 1, email |-> <<"a">>, name |-> "N", exp |-> 0]

auth(bearer) ==
    IF bearer.sig = "none" THEN [status |-> 401, msg |-> "Missing token"]
    ELSE IF ~JwtVerify(bearer, now)
    THEN [status |-> 401, msg |-> "Invalid token"]
    ELSE [status |-> 0, msg |-> ""]

ChangePassword(c, bearer, oldPassword, newPassword) ==
    /\ Free(c)
    /\ LET r == [NoConn EXCEPT !.op = "change-password", !.old = oldPassword,
                               !.password = newPassword]
           a == auth(bearer)
       IN  conns' = [conns EXCEPT ![c] =
               IF a.status # 0 THEN Respond(r, a.status, a.msg)
               ELSE IF newPassword = "" THEN Respond(r, 400, "missing new password")
               ELSE [r EXCEPT !.pc = "lookup", !.id = bearer.uid]]
    /\ UNCHANGED <<cfg, users, resets, now, nextTok, held, granted, used, fresh>>

\* const pass_hash = await bcrypt.hash(newPassword, 8)
NewPassHashOfOld(r) == Hash(r.old)
NewPassHash(r) == Hash(r.password)

\* part: if (u.pass_hash) { compare }; a digest is never empty
ChangePasswordLookup(c, ok) ==
    /\ conns[c].op = "change-password" /\ conns[c].pc = "lookup"
    /\ LET found == UsersById(conns[c].id)
           r == [Called(conns[c]) EXCEPT !.found = (found # {})]
       IN  conns' = [conns EXCEPT ![c] =
               IF ~ok \/ Cardinality(found) > 1 THEN ServerError(r)
               ELSE IF found = {} THEN Respond(r, 404, "user not found")
               ELSE LET u == CHOOSE x \in found : TRUE
                    IN  IF ~Compare(r.old, u.pass_hash)
                        THEN Respond(r, 400, "wrong old password")
                        ELSE [r EXCEPT !.pc = "update"]]
    /\ UNCHANGED <<cfg, users, resets, now, nextTok, held, granted, used, fresh>>

ChangePasswordUpdate(c, ok) ==
    /\ conns[c].op = "change-password" /\ conns[c].pc = "update"
    /\ LET r == Called(conns[c])
       IN  IF ~ok
           THEN /\ conns' = [conns EXCEPT ![c] = ServerError(r)]
                /\ UNCHANGED <<users, fresh>>
           ELSE /\ users' = { IF u.id = r.id
                              THEN [u EXCEPT !.pass_hash = NewPassHash(r)] ELSE u :
                              u \in users }
                /\ fresh' = { f \in fresh : f.uid # r.id } \cup
                            { [uid |-> r.id, old |-> r.old, new |-> r.password] }
                /\ conns' = [conns EXCEPT ![c] = Respond(r, 200, "password changed")]
    /\ UNCHANGED <<cfg, resets, now, nextTok, held, granted, used>>

\* ---------------------------------------------------------------- clock
Tick ==
    /\ now < MaxTime
    /\ now' = now + 1
    /\ UNCHANGED <<cfg, users, resets, nextTok, held, conns, granted, used, fresh>>

\* ------------------------------------------------------- specifications
BearerInputs == {NoBearer, BadBearer, OldBearer} \cup held

NextRegister(C) ==
    \/ \E c \in C, name \in NameInputs, email \in EmailInputs, password \in PasswordInputs :
           Register(c, name, email, password)
    \/ \E c \in C, ok \in BOOLEAN : RegisterLookup(c, ok)
    \/ \E c \in C, ok \in BOOLEAN : RegisterInsert(c, ok)
    \/ \E c \in C, sent \in BOOLEAN : RegisterMail(c, sent)

NextApprove(C) ==
    \/ \E c \in C, email \in EmailInputs, code \in CodeInputs : Approve(c, email, code)
    \/ \E c \in C, ok \in BOOLEAN : ApproveUpdate(c, ok)

NextLogin(C) ==
    \/ \E c \in C, email \in EmailInputs, password \in PasswordInputs : Login(c, email, password)
    \/ \E c \in C, ok \in BOOLEAN : LoginLookup(c, ok)

NextForgot(C) ==
    \/ \E c \in C, email \in EmailInputs : Forgot(c, email)
    \/ \E c \in C, ok \in BOOLEAN : ForgotLookup(c, ok)
    \/ \E c \in C, ok \in BOOLEAN : ForgotInsert(c, ok)
    \/ \E c \in C, sent \in BOOLEAN : ForgotMail(c, sent)

NextReset(C) ==
    \/ \E c \in C, email \in EmailInputs, token \in TokenInputs, newPassword \in PasswordInputs :
           Reset(c, email, token, newPassword)
    \/ \E c \in C, ok \in BOOLEAN : ResetLookup(c, ok)
    \/ \E c \in C, ok \in BOOLEAN : ResetUpdate(c, ok)
    \/ \E c \in C, ok \in BOOLEAN : ResetDelete(c, ok)

NextChangePassword(C) ==
    \/ \E c \in C, bearer \in BearerInputs, oldPassword \in PasswordInputs,
          newPassword \in PasswordInputs :
           ChangePassword(c, bearer, oldPassword, newPassword)
    \/ \E c \in C, ok \in BOOLEAN : ChangePasswordLookup(c, ok)
    \/ \E c \in C, ok \in BOOLEAN : ChangePasswordUpdate(c, ok)

NextHttp(C) ==
    \E c \in C, method \in Methods, path \in Paths, origin \in Origins :
        Http(c, method, path, origin)

\* the whole service: any request on any connection at any time
Next ==
    \/ NextHttp(Conns)
    \/ NextRegister(Conns)
    \/ NextApprove(Conns)
    \/ NextLogin(Conns)
    \/ NextForgot(Conns)
    \/ NextReset(Conns)
    \/ NextChangePassword(Conns)
    \/ Tick

Spec == Init /\ [][Next]_vars

\* stores left by earlier registrations and approvals
SeedOne ==
    { [id |-> 1, name |-> "N", email |-> <<"a">>, pass_hash |-> Hash("p1"), approved |-> TRUE] }
SeedUsers ==
    SeedOne \cup
    { [id |-> 2, name |-> "N", email |-> <<"b">>, pass_hash |-> Hash("p1"), approved |-> TRUE] }

\* concurrent registrations on every connection, on an empty store
SpecRegister == InitOn({}, {"42"}, {"server"}) /\ [][NextRegister(Conns)]_vars

\* registration, approval and login, one request at a time, on an empty store
NextAuth == NextRegister({1}) \/ NextApprove({1}) \/ NextLogin({1})
SpecAuth == Init /\ [][NextAuth]_vars

\* password recovery, one request at a time, as the clock advances
NextRecover == NextForgot({1}) \/ NextReset({1}) \/ Tick
SpecRecover == InitOn(SeedOne, {"42"}, {"server"}) /\ [][NextRecover]_vars

\* login and change-password, one request at a time
NextPassword == NextLogin({1}) \/ NextChangePassword({1})
SpecPassword == InitOn(SeedUsers, {"42"}, Builds) /\ [][NextPassword]_vars

\* a store left by a forgot request of the stored user: one unexpired token
SeedReset == { [id |-> 1, email |-> <<"a">>, token |-> 1, expires_at |-> ResetTTL] }
InitRecovering ==
    /\ cfg \in [build : {"server"}, adminCode : {"42"}, adminEmail : {TRUE}, smtp : {TRUE},
                permissive : {TRUE}]
    /\ users = SeedOne
    /\ resets = SeedReset
    /\ now = 0
    /\ nextTok = 2
    /\ held = {}
    /\ conns = [c \in Conns |-> NoConn]
    /\ granted = { u.email : u \in SeedOne }
    /\ used = {}
    /\ fresh = {}

\* a store of one user who logged in when the run began
InitSignedIn ==
    /\ cfg \in [build : Builds, adminCode : {"42"}, adminEmail : {TRUE}, smtp : {TRUE},
                permissive : {TRUE}]
    /\ users = SeedOne
    /\ resets = {}
    /\ now = 0
    /\ nextTok = 1
    /\ held = { signToken(u, 0) : u \in SeedOne }
    /\ conns = [c \in Conns |-> NoConn]
    /\ granted = { u.email : u \in SeedOne }
    /\ used = {}
    /\ fresh = {}

\* change-password requests on every connection at once
SpecPasswordRace == InitSignedIn /\ [][NextChangePassword(Conns)]_vars

\* reset requests on every connection at once
SpecResetRace == InitRecovering /\ [][NextReset(Conns)]_vars

\* preflights and other requests between registrations, in either CORS mode
NextCors == NextHttp({1}) \/ NextRegister({1})
SpecCors == InitWith({}, {"42"}, Builds, BOOLEAN) /\ [][NextCors]_vars

\* every endpoint, one request at a time, on a store of one user, for clients
\* that send every field: two accounts registered with one password, a
\* right and a wrong admin code, the tokens that were issued
LifeEmails == { <<"a">>, <<"b">> }
LifeCodes == { [t |-> "str", v |-> "42"], [t |-> "str", v |-> "13"] }
NextLifecycleOn(E) ==
    \/ \E email \in E : Register(1, "N", email, "p1")
    \/ \E ok \in BOOLEAN : RegisterLookup(1, ok)
    \/ \E ok \in BOOLEAN : RegisterInsert(1, ok)
    \/ \E sent \in BOOLEAN : RegisterMail(1, sent)
    \/ \E email \in E, code \in LifeCodes : Approve(1, email, code)
    \/ \E ok \in BOOLEAN : ApproveUpdate(1, ok)
    \/ \E email \in E, password \in Passwords : Login(1, email, password)
    \/ \E ok \in BOOLEAN : LoginLookup(1, ok)
    \/ \E email \in E : Forgot(1, email)
    \/ \E ok \in BOOLEAN : ForgotLookup(1, ok)
    \/ \E ok \in BOOLEAN : ForgotInsert(1, ok)
    \/ \E sent \in BOOLEAN : ForgotMail(1, sent)
    \/ \E email \in E, token \in 1..MaxResets, newPassword \in Passwords :
           Reset(1, email, token, newPassword)
    \/ \E ok \in BOOLEAN : ResetLookup(1, ok)
    \/ \E ok \in BOOLEAN : ResetUpdate(1, ok)
    \/ \E ok \in BOOLEAN : ResetDelete(1, ok)
    \/ \E bearer \in held \cup {NoBearer}, oldPassword \in Passwords, newPassword \in Passwords :
           ChangePassword(1, bearer, oldPassword, newPassword)
    \/ \E ok \in BOOLEAN : ChangePasswordLookup(1, ok)
    \/ \E ok \in BOOLEAN : ChangePasswordUpdate(1, ok)
NextLifecycle == NextLifecycleOn(LifeEmails)
SpecLifecycle == InitOn(SeedOne, {"42"}, {"server"}) /\ [][NextLifecycle]_vars

\* the return of the store or mail call a request on c is suspended at
Resume(c) ==
    \/ \E ok \in BOOLEAN : RegisterLookup(c, ok) \/ RegisterInsert(c, ok)
    \/ \E sent \in BOOLEAN : RegisterMail(c, sent)
    \/ \E ok \in BOOLEAN : ApproveUpdate(c, ok)
    \/ \E ok \in BOOLEAN : LoginLookup(c, ok)
    \/ \E ok \in BOOLEAN : ForgotLookup(c, ok) \/ ForgotInsert(c, ok)
    \/ \E sent \in BOOLEAN : ForgotMail(c, sent)
    \/ \E ok \in BOOLEAN : ResetLookup(c, ok) \/ ResetUpdate(c, ok) \/ ResetDelete(c, ok)
    \/ \E ok \in BOOLEAN : ChangePasswordLookup(c, ok) \/ ChangePasswordUpdate(c, ok)

\* every endpoint, for the clients of one account on an empty store, where
\* every store and mail call eventually returns
NextLive == NextLifecycleOn({ <<"a">> })
SpecLive == InitOn({}, {"42"}, Builds) /\ [][NextLive]_vars /\ WF_vars(Resume(1))

\* ================================================================ claims
\* the e-mail a claim means by "trimmed, lowercased"
Canon(email) == ToLowerCase(Trim(email))

\* C1: under any interleaving of register requests, with a store that
\* rejects an insert whose email is already present, the users table holds
\* at most one row per normalized email.
C1_OneRowPerEmail ==
    \A u \in users, v \in users : Canon(u.email) = Canon(v.email) => u = v

\* a register request that passed its existence check stands before its
\* insert while another request's row for the same email is already stored
C1_Witness ==
    \E c \in Conns : /\ conns[c].op = "register" /\ conns[c].pc = "insert"
                     /\ \E u \in users : u.email = Canon(conns[c].email)

\* C2: a register request with all three fields present whose email matches
\* a stored row after trimming and lowercasing is answered 400 "email
\* exists" when its lookup returns, and the step leaves the users table as
\* it was (a lookup that fails is answered 500).
C2_DuplicateRejected ==
    [][\A c \in Conns :
          (/\ RegisterLookup(c, TRUE)
           /\ \E u \in users : u.email = Canon(conns[c].email))
          => /\ conns'[c].pc = "done"
             /\ conns'[c].status = 400
             /\ conns'[c].msg = "email exists"
             /\ conns'[c].calls = 1
             /\ users' = users]_vars

\* the request of the spec's example: ' A' against the stored 'a'
C2_Witness ==
    /\ conns[1].op = "register" /\ conns[1].status = 400
    /\ conns[1].msg = "email exists"
    /\ conns[1].email = <<" ", "A">>
    /\ \E u \in users : u.email = <<"a">>

\* C3: a login is answered 200 only for an email whose row a register
\* request created and a later approve request with the configured admin
\* code approved; a login that finds a row not yet approved is answered
\* 403 whatever its password; and no step other than a successful approve
\* update leaves a row approved that was not approved before (a new row is
\* never approved).
C3_ApprovalGatesLogin ==
    [][/\ \A c \in Conns :
            (conns'[c].op = "login" /\ conns'[c].status = 200)
            => conns'[c].lower \in granted'
       /\ \A c \in Conns :
            (/\ LoginLookup(c, TRUE)
             /\ \E u \in users : u.email = conns[c].lower /\ ~u.approved)
            => conns'[c].status = 403
       /\ \A v \in users' :
            v.approved =>
              \/ \E u \in users : u.id = v.id /\ u.approved
              \/ \E c \in Conns : /\ ApproveUpdate(c, TRUE)
                                  /\ conns[c].authz
                                  /\ conns[c].lower = v.email
                                  /\ \E u \in users : u.id = v.id]_vars

\* a login answered 200
C3_Witness ==
    /\ conns[1].op = "login" /\ conns[1].status = 200
    /\ conns[1].lower \in granted
    /\ \E u \in users : u.email = conns[1].lower /\ u.approved

\* C4: an approve request with email and code present whose code is not
\* the configured admin code is answered 403 at once: it makes no store
\* call and leaves the users table as it was.
C4_WrongCodeRejected ==
    [][\A c \in Conns, email \in RawEmails, code \in CodeInputs :
          (/\ Approve(c, email, code)
           /\ code.v # ""
           /\ code.v # cfg.adminCode)
          => /\ conns'[c].pc = "done"
             /\ conns'[c].status = 403
             /\ conns'[c].calls = 0
             /\ users' = users]_vars

\* an approve request answered 403 while an unapproved user is stored
C4_Witness ==
    /\ conns[1].op = "approve" /\ conns[1].status = 403 /\ conns[1].calls = 0
    /\ cfg.adminCode # ""
    /\ \E u \in users : ~u.approved

\* C5: a login whose lookup finds a user but whose password is
\* wrong gets the answer of a login whose lookup finds no user: 400 "wrong
\* email or password".
C5_Original ==
    [][\A c \in Conns :
          (/\ LoginLookup(c, TRUE)
           /\ \/ ~\E u \in users : u.email = conns[c].lower
              \/ \E u \in users : /\ u.email = conns[c].lower
                                  /\ u.pass_hash.plain # conns[c].password)
          => /\ conns'[c].status = 400
             /\ conns'[c].msg = "wrong email or password"]_vars

\* the part of C5 the code keeps: a login whose lookup finds an approved
\* user but whose password is wrong gets the answer of a login whose lookup
\* finds no user: 400 "wrong email or password".
C5_NoEnumeration ==
    [][\A c \in Conns :
          (/\ LoginLookup(c, TRUE)
           /\ \/ ~\E u \in users : u.email = conns[c].lower
              \/ \E u \in users : /\ u.email = conns[c].lower
                                  /\ u.approved
                                  /\ u.pass_hash.plain # conns[c].password)
          => /\ conns'[c].status = 400
             /\ conns'[c].msg = "wrong email or password"]_vars

\* a login with a wrong password for an approved user was answered 400
C5_Witness ==
    /\ conns[1].op = "login" /\ conns[1].status = 400 /\ conns[1].found
    /\ \E u \in users : u.email = conns[1].lower /\ u.approved

\* C6: once a reset request with some email and token has been answered
\* 200, every reset request that begins afterwards with the same email and
\* token, and whose lookup returns, is answered 400 "invalid token".
C6_SingleUse ==
    \A c \in Conns :
        (/\ conns[c].op = "reset" /\ conns[c].pc = "done"
         /\ conns[c].late
         /\ conns[c].calls >= 1
         /\ conns[c].status # 500)
        => /\ conns[c].status = 400
           /\ conns[c].msg = "invalid token"

\* C7: a reset request whose lookup returns a row that expired before now
\* is answered 400 "token expired"; it makes no further store call, so the
\* user's pass_hash is as it was and the expired row is still stored.
C7_ExpiredRejected ==
    [][\A c \in Conns :
          (/\ ResetLookup(c, TRUE)
           /\ \E r \in resets : /\ r.email = conns[c].lower
                                /\ r.token = conns[c].token
                                /\ r.expires_at < now)
          => /\ conns'[c].pc = "done"
             /\ conns'[c].status = 400
             /\ conns'[c].msg = "token expired"
             /\ conns'[c].calls = 1
             /\ users' = users
             /\ resets' = resets]_vars

\* a reset answered "token expired" whose row is still stored
C7_Witness ==
    /\ conns[1].op = "reset" /\ conns[1].status = 400
    /\ conns[1].msg = "token expired"
    /\ \E r \in resets : /\ r.email = conns[1].lower /\ r.token = conns[1].token
                         /\ r.expires_at < now

\* C8: no reset request whose lookup is evaluated at a clock value at or
\* past expires_at of its row goes on to change a pass_hash or is answered
\* 200.
C8_ValidOnlyBeforeExpiry ==
    \A c \in Conns :
        (conns[c].op = "reset" /\ conns[c].stale)
        => /\ conns[c].pc \notin {"update", "delete"}
           /\ conns[c].status # 200

\* C9: a change-password request with a valid bearer token and a newPassword
\* whose oldPassword does not match the stored hash of its user is answered
\* 400 when its lookup returns; it makes no further store call and no
\* user's pass_hash changes.
C9_WrongOldPassword ==
    [][\A c \in Conns :
          (/\ ChangePasswordLookup(c, TRUE)
           /\ \E u \in users : u.id = conns[c].id /\ u.pass_hash.plain # conns[c].old)
          => /\ conns'[c].pc = "done"
             /\ conns'[c].status = 400
             /\ conns'[c].calls = 1
             /\ users' = users]_vars

\* a change-password answered 400 for a wrong old password
C9_Witness ==
    /\ conns[1].op = "change-password" /\ conns[1].status = 400
    /\ conns[1].msg = "wrong old password" /\ conns[1].found
    /\ \E u \in users : u.id = conns[1].id

\* C10: the update of a change-password request that is answered 200 leaves
\* the hash of newPassword as the user's pass_hash; and while no other
\* request has written that pass_hash since, a login of that approved user
\* is answered 200 with newPassword and 400 with the oldPassword it
\* replaced.
C10_NewPasswordTakesOver ==
    [][/\ \A c \in Conns :
            ChangePasswordUpdate(c, TRUE)
            => /\ conns'[c].status = 200
               /\ \A v \in users' :
                    v.id = conns[c].id =>
                      /\ v.pass_hash.plain = conns[c].password
                      /\ v.pass_hash.cost = HashCost
       /\ \A c \in Conns, f \in fresh :
            (/\ LoginLookup(c, TRUE)
             /\ f.old # f.new
             /\ \E u \in users : /\ u.id = f.uid /\ u.approved
                                 /\ u.email = conns[c].lower)
            => /\ conns[c].password = f.new => conns'[c].status = 200
               /\ conns[c].password = f.old => conns'[c].status = 400]_vars

\* a login with the new password answered 200 after a change-password
C10_Witness ==
    /\ conns[1].op = "login" /\ conns[1].status = 200
    /\ \E f \in fresh : f.uid = conns[1].id /\ f.old # f.new

\* C11: with no store call failing, a forgot request is answered 200 with
\* the one generic message whether or not its lookup finds a user, whatever
\* became of the mail; it looks up the trimmed, lowercased email; and it
\* adds a resets row (that email, expires_at 30 minutes after the clock
\* read of the request) exactly when the lookup found a user.
C11_UniformForgot ==
    [][\A c \in Conns :
          /\ \A email \in RawEmails :
                Forgot(c, email) => /\ conns'[c].lower = Canon(email)
                                    /\ conns'[c].pc = "lookup"
          /\ (ForgotLookup(c, TRUE) /\ ~\E u \in users : u.email = conns[c].lower)
             => /\ conns'[c].status = 200
                /\ conns'[c].msg = "sent if exists"
          /\ (ForgotLookup(c, TRUE) /\ \E u \in users : u.email = conns[c].lower)
             => /\ conns'[c].pc = "insert"
                /\ conns'[c].expires = now + ResetTTL
          /\ ForgotInsert(c, TRUE)
             => \E x \in resets' \ resets :
                   /\ resets' = resets \cup {x}
                   /\ x.email = conns[c].lower
                   /\ x.expires_at = conns[c].expires
          /\ \A sent \in BOOLEAN :
                ForgotMail(c, sent) => /\ conns'[c].status = 200
                                       /\ conns'[c].msg = "sent if exists"
          /\ (conns[c].op = "forgot" /\ conns'[c] # conns[c] /\ resets' # resets)
             => \E u \in users : u.email = conns[c].lower]_vars

\* the part of C11 that does not depend on the mail: the same, for every
\* step of a forgot request but the return of sendMail
C11_UniformUntilMail ==
    [][\A c \in Conns :
          /\ (ForgotLookup(c, TRUE) /\ ~\E u \in users : u.email = conns[c].lower)
             => /\ conns'[c].status = 200
                /\ conns'[c].msg = "sent if exists"
                /\ resets' = resets
          /\ ForgotInsert(c, TRUE)
             => /\ conns'[c].pc = "mail"
                /\ \E x \in resets' \ resets : resets' = resets \cup {x}
          /\ ForgotMail(c, TRUE) => /\ conns'[c].status = 200
                                    /\ conns'[c].msg = "sent if exists"]_vars

\* C12: a register or forgot request whose mail send fails is answered as
\* one whose mail send succeeds: 200 with the success message, after three
\* store or mail steps that left its row inserted.
C12_MailFailureSwallowed ==
    [][\A c \in Conns :
          /\ RegisterMail(c, FALSE)
             => /\ conns'[c].status = 200
                /\ conns'[c].msg = "registered"
          /\ ForgotMail(c, FALSE)
             => /\ conns'[c].status = 200
                /\ conns'[c].msg = "sent if exists"]_vars

\* C13: a request whose store call reports an error is answered 500 with
\* the server-error message at that step, whichever call it is: a lookup,
\* an insert, an update, or the delete that ends reset.
C13_StoreErrorIs500 ==
    [][\A c \in Conns :
          (\/ RegisterLookup(c, FALSE) \/ RegisterInsert(c, FALSE)
           \/ ApproveUpdate(c, FALSE)
           \/ LoginLookup(c, FALSE)
           \/ ForgotLookup(c, FALSE) \/ ForgotInsert(c, FALSE)
           \/ ResetLookup(c, FALSE) \/ ResetUpdate(c, FALSE) \/ ResetDelete(c, FALSE)
           \/ ChangePasswordLookup(c, FALSE) \/ ChangePasswordUpdate(c, FALSE))
          => /\ conns'[c].pc = "done"
             /\ conns'[c].status = 500
             /\ conns'[c].msg = "server error"]_vars

\* the part of C13 the code keeps: every store call but the delete of reset
C13_StoreErrorButDelete ==
    [][\A c \in Conns :
          (\/ RegisterLookup(c, FALSE) \/ RegisterInsert(c, FALSE)
           \/ ApproveUpdate(c, FALSE)
           \/ LoginLookup(c, FALSE)
           \/ ForgotLookup(c, FALSE) \/ ForgotInsert(c, FALSE)
           \/ ResetLookup(c, FALSE) \/ ResetUpdate(c, FALSE)
           \/ ChangePasswordLookup(c, FALSE) \/ ChangePasswordUpdate(c, FALSE))
          => /\ conns'[c].pc = "done"
             /\ conns'[c].status = 500
             /\ conns'[c].msg = "server error"]_vars

\* C14: a change-password request that carries no bearer token, or one that
\* this server did not sign, or one that has expired, is answered 401 by its
\* first step, whatever its body: it makes no store call and leaves users
\* and resets as they were.
C14_Unauthenticated401 ==
    [][\A c \in Conns, bearer \in BearerInputs,
          oldPassword \in PasswordInputs, newPassword \in PasswordInputs :
          (/\ ChangePassword(c, bearer, oldPassword, newPassword)
           /\ \/ bearer.sig # "valid"
              \/ now >= bearer.exp)
          => /\ conns'[c].pc = "done"
             /\ conns'[c].status = 401
             /\ conns'[c].calls = 0
             /\ users' = users
             /\ resets' = resets]_vars

\* a change-password answered 401 while a client holds a token that would
\* have been accepted
C14_Witness ==
    /\ conns[1].op = "change-password" /\ conns[1].status = 401
    /\ conns[1].calls = 0
    /\ held # {}

\* C15: a step of a forgot request removes and changes no resets row, and
\* its insert adds exactly one; a step of a reset request removes no row
\* but, at its delete, the row of the email and token it presented; and a
\* reset whose lookup returns an unexpired row of its email and token goes
\* on to the update, whatever other tokens of that email were used before.
C15_TokensIndependent ==
    [][\A c \in Conns :
          /\ (conns[c].op = "forgot" /\ conns'[c] # conns[c])
             => /\ resets \subseteq resets'
                /\ Cardinality(resets' \ resets) <= 1
          /\ ForgotInsert(c, TRUE) => Cardinality(resets' \ resets) = 1
          /\ (conns[c].op = "reset" /\ conns'[c] # conns[c])
             => /\ resets' \subseteq resets
                /\ \A x \in resets \ resets' :
                      /\ conns[c].pc = "delete"
                      /\ x.email = conns[c].lower
                      /\ x.token = conns[c].token
          /\ (/\ ResetLookup(c, TRUE)
              /\ \E x \in resets : /\ x.email = conns[c].lower
                                   /\ x.token = conns[c].token
                                   /\ now < x.expires_at)
             => conns'[c].pc = "update"]_vars

\* a reset was answered 200 and its row is gone while another token of the
\* same email, issued before, is still stored
C15_Witness ==
    /\ conns[1].op = "reset" /\ conns[1].status = 200
    /\ ~\E x \in resets : x.token = conns[1].token
    /\ \E x \in resets : x.email = conns[1].lower /\ x.token < conns[1].token

\* C16: no step removes a users row or changes its id, name or email, or
\* turns its approved from true to false; and a step changes the pass_hash
\* of a row only as the successful users update of a reset request, which
\* then ends with 200, or of a change-password request, which it answers
\* 200.
C16_UserLifecycle ==
    [][/\ \A u \in users :
            \E v \in users' : /\ v.id = u.id /\ v.name = u.name /\ v.email = u.email
                               /\ (u.approved => v.approved)
       /\ \A u \in users, v \in users' :
            (v.id = u.id /\ v.pass_hash # u.pass_hash)
            => \E c \in Conns :
                  \/ ResetUpdate(c, TRUE) /\ conns'[c].pc = "delete"
                  \/ ChangePasswordUpdate(c, TRUE) /\ conns'[c].status = 200
       /\ \A c \in Conns :
            (conns[c].op = "reset" /\ conns[c].pc = "delete" /\ conns'[c] # conns[c])
            => conns'[c].status = 200]_vars

\* the user that registered with p1 is approved and has another pass_hash
C16_Witness ==
    \E u \in users : /\ u.email = <<"b">> /\ u.approved
                      /\ u.pass_hash.plain = "p2"

\* C17: an OPTIONS request, on any path, from any Origin and in either CORS
\* mode, is answered 204 by the guard: no route handles it, it makes no
\* store call, and nothing but the connection that carried it changes.
C17_PreflightShortCircuit ==
    [][\A c \in Conns, path \in Paths, origin \in Origins :
          Http(c, "OPTIONS", path, origin)
          => /\ conns'[c].op = "preflight"
             /\ conns'[c].pc = "done"
             /\ conns'[c].status = 204
             /\ conns'[c].calls = 0
             /\ UNCHANGED <<cfg, users, resets, now, nextTok, held, granted, used, fresh>>]_vars

\* a preflight from an origin off the list, in whitelist mode, was answered
\* 204 on a store that holds a user
C17_Witness ==
    /\ conns[1].op = "preflight" /\ conns[1].status = 204
    /\ ~cfg.permissive /\ conns[1].allow = ""
    /\ users # {}

\* C18: of two reset requests with the same email and token that are in
\* flight together (neither began after the other was answered), at most
\* one is answered 200.
C18_AtMostOneReset ==
    \A c \in Conns, d \in Conns :
        (/\ c # d
         /\ conns[c].op = "reset" /\ conns[d].op = "reset"
         /\ conns[c].lower = conns[d].lower /\ conns[c].token = conns[d].token
         /\ ~conns[c].late /\ ~conns[d].late
         /\ conns[c].status = 200)
        => conns[d].status # 200

\* C19: where every store and mail call eventually returns, a request that
\* a handler has begun is eventually answered; a request carries a status
\* exactly when it has been answered; and a connection that was answered is
\* next touched by the first step of a new request, never by a further step
\* of the answered one.
C19_RespondsOnce ==
    /\ \A c \in Conns : (conns[c].pc \notin {"idle", "done"}) ~> (conns[c].pc = "done")
    /\ [](\A c \in Conns : (conns[c].status # 0) <=> (conns[c].pc = "done"))
    /\ [][\A c \in Conns :
             (conns[c].pc = "done" /\ conns'[c] # conns[c])
             => /\ conns'[c].calls = 0
                /\ conns'[c].pc = "done" <=> conns'[c].status # 0]_vars

\* a reset request was answered after its three store calls
C19_Witness ==
    /\ conns[1].op = "reset" /\ conns[1].pc = "done" /\ conns[1].calls = 3
    /\ conns[1].status = 200

\* C20: forgot stores a token no row holds and none held before, under the
\* email it looked up; a reset request changes the pass_hash of a user only
\* at its update and only of the user whose email the stored row of its
\* token carries; and a reset that presents a stored token with another
\* email is answered 400 "invalid token" when its lookup returns, with users
\* as they were.
C20_TokenBoundToAccount ==
    [][\A c \in Conns :
          /\ ForgotInsert(c, TRUE)
             => \A x \in resets' \ resets :
                   /\ x.email = conns[c].lower
                   /\ \A y \in resets : y.token # x.token
                   /\ \A p \in used : p[2] # x.token
          /\ (conns[c].op = "reset" /\ conns'[c] # conns[c])
             => \A u \in users, v \in users' :
                   (v.id = u.id /\ v.pass_hash # u.pass_hash)
                   => /\ conns[c].pc = "update"
                      /\ \E x \in resets : /\ x.token = conns[c].token
                                           /\ x.email = u.email
          /\ (/\ ResetLookup(c, TRUE)
              /\ \E x \in resets : /\ x.token = conns[c].token
                                   /\ x.email # conns[c].lower)
             => /\ conns'[c].pc = "done"
                /\ conns'[c].status = 400
                /\ conns'[c].msg = "invalid token"
                /\ users' = users]_vars

\* a reset that presented the token of one stored user with the email of
\* the other was answered 400
C20_Witness ==
    /\ conns[1].op = "reset" /\ conns[1].status = 400
    /\ conns[1].msg = "invalid token"
    /\ \E u \in users : u.email = conns[1].lower
    /\ \E x \in resets : /\ x.token = conns[1].token /\ x.email # conns[1].lower
                         /\ \E u \in users : u.email = x.email

\* C21: the update of an approve request for an email that has no row is
\* answered 200 and leaves users as it was; a row that register inserts is
\* not approved, whatever was approved before, and a login that finds it
\* unapproved is answered 403; and where the admin code is not configured
\* no approve request comes to its update or to a 200.
C21_NoApprovalInAdvance ==
    [][\A c \in Conns :
          /\ (ApproveUpdate(c, TRUE) /\ ~\E u \in users : u.email = conns[c].lower)
             => /\ conns'[c].status = 200
                /\ users' = users
          /\ RegisterInsert(c, TRUE) => \A v \in users' \ users : ~v.approved
          /\ (LoginLookup(c, TRUE) /\ \E u \in users : u.email = conns[c].lower /\ ~u.approved)
             => conns'[c].status = 403
          /\ (cfg.adminCode = "" /\ conns'[c].op = "approve")
             => /\ conns'[c].pc # "update"
                /\ conns'[c].status # 200]_vars

\* the part of C21 the code keeps: the same, but for a build and an admin
\* code other than part_000's with none configured
C21_NoGrantBeforeRegister ==
    [][\A c \in Conns :
          /\ (ApproveUpdate(c, TRUE) /\ ~\E u \in users : u.email = conns[c].lower)
             => /\ conns'[c].status = 200
                /\ users' = users
          /\ RegisterInsert(c, TRUE) => \A v \in users' \ users : ~v.approved
          /\ (LoginLookup(c, TRUE) /\ \E u \in users : u.email = conns[c].lower /\ ~u.approved)
             => conns'[c].status = 403
          /\ (cfg.adminCode = "" /\ cfg.build = "server" /\ conns'[c].op = "approve")
             => /\ conns'[c].pc # "update"
                /\ conns'[c].status # 200]_vars

\* C22: the update of a change-password request is written, and the request
\* answered 200, only while the oldPassword it presented matches the
\* pass_hash its user has at that moment.
C22_OldPasswordStillCurrent ==
    [][\A c \in Conns :
          (ChangePasswordUpdate(c, TRUE) /\ conns'[c].status = 200)
          => \E u \in users : /\ u.id = conns[c].id
                               /\ u.pass_hash.plain = conns[c].old]_vars

\* C23: no step of a login request changes users or resets; the step that
\* answers a request with a 4xx status changes neither; and a request whose
\* earlier step changed one of them (it then waits for its mail or for its
\* delete, or was answered 200 at once) is not answered with a 4xx.
C23_RejectedLeavesStore ==
    [][\A c \in Conns :
          /\ (conns'[c] # conns[c] /\ conns'[c].op = "login")
             => users' = users /\ resets' = resets
          /\ (conns'[c] # conns[c] /\ conns'[c].status \in 400..499)
             => users' = users /\ resets' = resets
          /\ (conns'[c] # conns[c] /\ (users' # users \/ resets' # resets))
             => \/ conns'[c].pc \in {"mail", "delete"}
                \/ conns'[c].status = 200
          /\ (conns[c].pc \in {"mail", "delete"} /\ conns'[c] # conns[c])
             => conns'[c].status \notin 400..499]_vars

\* a reset was answered 400 on a store that holds two users and a token
C23_Witness ==
    /\ conns[1].op = "reset" /\ conns[1].status = 400 /\ conns[1].calls = 1
    /\ Cardinality(users) = 2
    /\ resets # {}

=============================================================================
